---------------------------- MODULE Spec2Model ----------------------------
(***************************************************************************)
(* Model of download_nft_images.py: the manifest loader, the extension     *)
(* inference, the Fetcher (download_image) and the run driver (main).      *)
(*                                                                         *)
(* Strings are sequences of one-character strings.  The single token        *)
(* Origin stands for the "scheme://host" head of a URL, which none of the  *)
(* modelled functions looks into.                                           *)
(***************************************************************************)
EXTENDS Integers, Sequences, FiniteSets, TLC

(***************************************************************************)
(* Bounds of the model                                                     *)
(***************************************************************************)
MaxItems == 2      \* longest manifest item list
MaxRuns == 2       \* consecutive runs on the same manifest and directory
MaxPathLen == 3    \* longest URL path given to the extension inference
MaxExtLen == 1     \* longest value of the ext parameter given to it

(***************************************************************************)
(* Program constants                                                        *)
(***************************************************************************)
max_retries == 3   \* default of download_image's max_retries parameter

(***************************************************************************)
(* String helpers (Python str operations on character sequences)            *)
(***************************************************************************)
Absent == <<"<absent>">>   \* the value of a key that is not in a JSON object
Origin == "https://x.com"  \* scheme and network location of a URL

\* s[a:b] with 1-based inclusive positions, empty when a > b
Slice(s, a, b) == IF a > b THEN << >> ELSE SubSeq(s, a, b)

\* s[k:] starts with pat
StartsAt(s, pat, k) ==
    /\ k + Len(pat) - 1 <= Len(s)
    /\ \A j \in 1..Len(pat) : s[k + j - 1] = pat[j]

\* str.find: position of the first occurrence of pat at or after from, 0 if none
Find(s, pat, from) ==
    LET hits == {k \in from..Len(s) : StartsAt(s, pat, k)}
    IN  IF hits = {} THEN 0 ELSE CHOOSE k \in hits : \A m \in hits : k <= m

\* str.rfind: position of the last occurrence of the character c, 0 if none
RFind(s, c) ==
    LET hits == {k \in 1..Len(s) : s[k] = c}
    IN  IF hits = {} THEN 0 ELSE CHOOSE k \in hits : \A m \in hits : k >= m

\* pat in s
Contains(s, pat) == Find(s, pat, 1) # 0

\* s.split(pat)[0]
SplitFirst(s, pat) ==
    LET k == Find(s, pat, 1)
    IN  IF k = 0 THEN s ELSE Slice(s, 1, k - 1)

\* s.split(pat)[1], for s that contains pat
SplitSecond(s, pat) ==
    LET k == Find(s, pat, 1)
        rest == Slice(s, k + Len(pat), Len(s))
    IN  SplitFirst(rest, pat)

ExtParam == <<"?", "e", "x", "t", "=">>

\* the text from the end of the network location on, when that location
\* starts at position from: it ends before the first "/", "?" or "#"
AfterNetloc(s, from) ==
    LET ends == {k \in from..Len(s) : s[k] \in {"/", "?", "#"}}
    IN  IF ends = {} THEN << >>
        ELSE Slice(s, CHOOSE k \in ends : \A m \in ends : k <= m, Len(s))

\* urlparse(url).path: the text after the network location (which follows
\* the scheme, or a leading "//"), up to the fragment, the query and the
\* parameters of the last segment
UrlPath(url) ==
    LET afterNetloc ==
            IF Len(url) > 0 /\ url[1] = Origin THEN AfterNetloc(url, 2)
            ELSE IF StartsAt(url, <<"/", "/">>, 1) THEN AfterNetloc(url, 3)
            ELSE url
        noFragment == SplitFirst(afterNetloc, <<"#">>)
        noQuery == SplitFirst(noFragment, <<"?">>)
        lastSlash == RFind(noQuery, "/")
        semi == Find(noQuery, <<";">>, lastSlash + 1)
    IN  IF semi = 0 THEN noQuery ELSE Slice(noQuery, 1, semi - 1)

\* os.path.splitext(path)[1]: from the last dot of the last segment, unless
\* that segment has only leading dots before it
SplitExt(path) ==
    LET sep == RFind(path, "/")
        dot == RFind(path, ".")
        lead == {k \in (sep + 1)..dot : path[k] # "."}
    IN  IF dot > sep /\ lead # {} THEN Slice(path, dot, Len(path)) ELSE << >>

DefaultExt == <<".", "p", "n", "g">>

get_file_extension_from_url(url) ==
    IF Contains(url, ExtParam)
    THEN <<".">> \o SplitFirst(SplitSecond(url, ExtParam), <<"&">>)
    ELSE LET ext == SplitExt(UrlPath(url))
         IN  IF ext # << >> THEN ext ELSE DefaultExt

(***************************************************************************)
(* Inputs: manifest documents, entries, files                               *)
(***************************************************************************)
Mint1 == <<"M", "1">>
UrlPng == <<Origin, "/", "a", ".", "p", "n", "g">>
UrlGif == <<Origin, "/", "a", "?", "e", "x", "t", "=", "g", "i", "f">>
UrlPlain == <<Origin, "/", "a">>

IdVals == {Absent, << >>, Mint1}
Urls == {UrlPng, UrlGif, UrlPlain}
UrlVals == {Absent, << >>} \cup Urls

\* one element of result.items: its "id" and its content.links.image
Entries == [id : IdVals, image : UrlVals]

ItemLists == UNION {[1..n -> Entries] : n \in 0..MaxItems}

\* what json.load can return: null, a non-empty array, or an object with
\* the top-level keys top; res are the keys of the "result" object
Value(k) == [kind |-> k, top |-> {}, res |-> {}, items |-> << >>]
None == Value("None")      \* Python's None
NullDoc == Value("null")
ArrayDoc == Value("array")
ObjectDocs ==
    {[kind |-> "object", top |-> t, res |-> {}, items |-> << >>] :
        t \in {{}, {"extra"}, {"result"}}}
    \cup {[kind |-> "object", top |-> {"result"}, res |-> {"items"}, items |-> l] :
        l \in ItemLists}
Docs == {NullDoc, ArrayDoc} \cup ObjectDocs

\* the manifest file on disk: no file, an unreadable file, a file that is
\* not JSON, or a file holding a document
BadFiles == {Value("missing"), Value("unreadable"), Value("malformed")}
ManifestFiles == BadFiles \cup Docs

\* dict.get(key, '') of an entry field
Get(field) == IF field = Absent THEN << >> ELSE field

\* f"{mint_address}{file_ext}"; os.path.join(download_dir, .) puts every
\* file in the one download directory, so the file name identifies the path
FileName(mint_address, image_url) ==
    mint_address \o get_file_extension_from_url(image_url)

Paths == {FileName(m, u) : m \in {Mint1}, u \in Urls}

\* The content of a path is "none" (no file), "old" (a file from before the
\* first run), "body" (the body of a response) or "partial" (what a write
\* that failed left).
VARIABLES
    dir,                   \* the download directory: absent, present, blocked
    manifestFile,          \* collection.json on disk
    fs,                    \* content of each path of the download directory
    run,                   \* number of the current run
    pc,                    \* position of the program
    error,                 \* exception that ended the run, "none" if none
    collection_data,       \* main: result of load_collection_data
    items,                 \* main: result.items
    total_count,           \* main
    i,                     \* main: index of the entry being processed
    successful_downloads,  \* main
    failed_downloads,      \* main
    skipped_downloads,     \* main
    url,                   \* download_image: url
    filepath,              \* download_image: filepath
    attempt,               \* download_image: loop variable
    ret,                   \* download_image: returned value
    gets,                  \* HTTP GETs of the current run
    callGets,              \* HTTP GETs of the current download_image call
    failedGets,            \* failed HTTP GETs of the current call
    waits,                 \* time.sleep(2) calls of the current call
    sleeps,                \* time.sleep(0.5) calls of the current run
    fetched,               \* download_image calls of the current run
    fs0,                   \* fs when the current run started
    prev,                  \* how the previous run ended, NoRun in the first run
    file_ext,              \* main: file_ext; the result of the inference
    writes,                \* times each path was opened for writing in this run
    outcomes               \* how each processed entry of this run ended

mainVars == <<collection_data, items, total_count, i, successful_downloads,
              failed_downloads, skipped_downloads>>
counters == <<successful_downloads, failed_downloads, skipped_downloads>>
callVars == <<url, filepath, attempt, ret, callGets, failedGets, waits>>
histVars == <<file_ext, writes, outcomes>>
vars == <<dir, manifestFile, fs, run, pc, error, mainVars, callVars,
          gets, sleeps, fetched, fs0, prev, histVars>>

NoRun == [pc |-> "none", failed |-> 0, outcomes |-> << >>]
NoWrites == [p \in Paths |-> 0]

NoCall ==
    /\ url = << >>
    /\ filepath = << >>
    /\ attempt = 0
    /\ ret = FALSE
    /\ callGets = 0
    /\ failedGets = 0
    /\ waits = 0

FreshMain ==
    /\ collection_data = None
    /\ items = << >>
    /\ total_count = 0
    /\ i = 0
    /\ successful_downloads = 0
    /\ failed_downloads = 0
    /\ skipped_downloads = 0

\* a directory that does not exist holds no file; a blocked one (a plain
\* file of that name, or a parent that is not writable) cannot be created
Init ==
    /\ manifestFile \in ManifestFiles
    /\ \/ dir = "present" /\ fs \in [Paths -> {"none", "old"}]
       \/ dir \in {"absent", "blocked"} /\ fs = [p \in Paths |-> "none"]
    /\ run = 1
    /\ pc = "mkdir"
    /\ error = "none"
    /\ FreshMain
    /\ NoCall
    /\ gets = 0
    /\ sleeps = 0
    /\ fetched = 0
    /\ fs0 = fs
    /\ prev = NoRun
    /\ file_ext = << >>
    /\ writes = NoWrites
    /\ outcomes = << >>

(***************************************************************************)
(* load_collection_data and the tests of main                               *)
(***************************************************************************)
\* open and json.load raise for a bad file, and the handler returns None;
\* json.load of "null" returns None as well
load_collection_data(json_file) ==
    IF json_file \in BadFiles THEN None
    ELSE IF json_file = NullDoc THEN None
    ELSE json_file

\* variant: the test after the load is missing
NotTruthy_Never(data) == FALSE

\* not collection_data: None and the empty object are false
NotTruthy(data) ==
    \/ data = None
    \/ data.kind = "object" /\ data.top = {}

\* collection_data.get('result', {}).get('items', [])
ExtractItems(data) ==
    IF "result" \in data.top /\ "items" \in data.res THEN data.items ELSE << >>

\* variant: only the id is tested
MissingField_IdOnly(mint_address, image_url) ==
    mint_address = << >>

\* not mint_address or not image_url
MissingField(mint_address, image_url) ==
    mint_address = << >> \/ image_url = << >>

\* variant: a file left by a failed write does not count as present
Exists_CompleteOnly(files, path) == files[path] \notin {"none", "partial"}

\* variant: the existence test never succeeds
Exists_Never(files, path) == FALSE

\* os.path.exists(filepath)
Exists(files, path) == files[path] # "none"

\* variant: the wait does not depend on the attempts that remain
AttemptsRemain_Always(n) == TRUE

\* variant: off by one in the test
AttemptsRemain_OneLess(n) == n < max_retries - 2

\* attempt < max_retries - 1
AttemptsRemain(n) == n < max_retries - 1

\* variant: every returned call is counted as a success
Counted_AlwaysSuccess(r, successful, failed) == <<successful + 1, failed>>

\* variant: a failure is not counted
Counted_SuccessOnly(r, successful, failed) ==
    IF r THEN <<successful + 1, failed>> ELSE <<successful, failed>>

\* if download_image(..): successful_downloads += 1 else: failed_downloads += 1
Counted(r, successful, failed) ==
    IF r THEN <<successful + 1, failed>> ELSE <<successful, failed + 1>>

\* variant: an existing file is not overwritten
WriteBody_KeepExisting(files, path) ==
    IF files[path] # "none" THEN files ELSE [files EXCEPT ![path] = "body"]

\* with open(filepath, 'wb') as f: f.write(response.content)
WriteBody(files, path) == [files EXCEPT ![path] = "body"]

(***************************************************************************)
(* main, up to the loop                                                     *)
(***************************************************************************)
\* Path(download_dir).mkdir(exist_ok=True)
MakeDir ==
    /\ pc = "mkdir"
    /\ IF dir = "blocked"
       THEN /\ pc' = "crashed"
            /\ error' = "OSError(mkdir)"
            /\ dir' = dir
       ELSE /\ pc' = "load"
            /\ error' = error
            /\ dir' = "present"
    /\ UNCHANGED <<manifestFile, fs, run, mainVars, callVars, gets, sleeps,
                   fetched, fs0, prev, histVars>>

\* collection_data = load_collection_data(json_file)
Load ==
    /\ pc = "load"
    /\ collection_data' = load_collection_data(manifestFile)
    /\ pc' = "check"
    /\ UNCHANGED <<dir, manifestFile, fs, run, error, items, total_count, i,
                   counters, callVars, gets, sleeps, fetched, fs0, prev,
                   histVars>>

\* if not collection_data: return
Abort ==
    /\ pc = "check"
    /\ NotTruthy(collection_data)
    /\ pc' = "aborted"
    /\ UNCHANGED <<dir, manifestFile, fs, run, error, mainVars, callVars,
                   gets, sleeps, fetched, fs0, prev, histVars>>

\* only an object has .get: AttributeError for any other value
ExtractFails ==
    /\ pc = "check"
    /\ ~NotTruthy(collection_data)
    /\ collection_data.kind # "object"
    /\ pc' = "crashed"
    /\ error' = "AttributeError"
    /\ UNCHANGED <<dir, manifestFile, fs, run, mainVars, callVars, gets,
                   sleeps, fetched, fs0, prev, histVars>>

\* items, total_count and the three counters
Extract ==
    /\ pc = "check"
    /\ ~NotTruthy(collection_data)
    /\ collection_data.kind = "object"
    /\ items' = ExtractItems(collection_data)
    /\ total_count' = Len(items')
    /\ successful_downloads' = 0
    /\ failed_downloads' = 0
    /\ skipped_downloads' = 0
    /\ pc' = "loop"
    /\ UNCHANGED <<dir, manifestFile, fs, run, error, collection_data, i,
                   callVars, gets, sleeps, fetched, fs0, prev, histVars>>

(***************************************************************************)
(* main: the loop over the entries                                          *)
(***************************************************************************)
\* the entry the loop takes next, and its fields as main reads them
NextItem == items[i + 1]
mint_address == Get(NextItem.id)
image_url == Get(NextItem.image)

\* if not mint_address or not image_url: skipped_downloads += 1; continue
SkipEntry ==
    /\ pc = "loop"
    /\ i < Len(items)
    /\ MissingField(mint_address, image_url)
    /\ i' = i + 1
    /\ skipped_downloads' = skipped_downloads + 1
    /\ outcomes' = Append(outcomes, "skipped")
    /\ pc' = "loop"
    /\ UNCHANGED <<dir, manifestFile, fs, run, error, collection_data, items,
                   total_count, successful_downloads, failed_downloads,
                   callVars, gets, sleeps, fetched, fs0, prev, file_ext,
                   writes>>

\* if os.path.exists(filepath): successful_downloads += 1; continue
AlreadyExists ==
    /\ pc = "loop"
    /\ i < Len(items)
    /\ ~MissingField(mint_address, image_url)
    /\ Exists(fs, FileName(mint_address, image_url))
    /\ i' = i + 1
    /\ file_ext' = get_file_extension_from_url(image_url)
    /\ successful_downloads' = successful_downloads + 1
    /\ outcomes' = Append(outcomes, "exists")
    /\ pc' = "loop"
    /\ UNCHANGED <<dir, manifestFile, fs, run, error, collection_data, items,
                   total_count, failed_downloads, skipped_downloads,
                   callVars, gets, sleeps, fetched, fs0, prev, writes>>

\* variant: the attempt counter outlives the call
CallFetcher_KeepsAttempt ==
    /\ pc = "loop"
    /\ i < Len(items)
    /\ ~MissingField(mint_address, image_url)
    /\ ~Exists(fs, FileName(mint_address, image_url))
    /\ i' = i + 1
    /\ url' = image_url
    /\ filepath' = FileName(mint_address, image_url)
    /\ attempt' = attempt
    /\ ret' = FALSE
    /\ callGets' = 0
    /\ failedGets' = 0
    /\ waits' = 0
    /\ file_ext' = get_file_extension_from_url(image_url)
    /\ fetched' = fetched + 1
    /\ pc' = "get"
    /\ UNCHANGED <<dir, manifestFile, fs, run, error, collection_data, items,
                   total_count, counters, gets, sleeps, fs0, prev, writes,
                   outcomes>>

\* download_image(image_url, filepath) is entered
CallFetcher ==
    /\ pc = "loop"
    /\ i < Len(items)
    /\ ~MissingField(mint_address, image_url)
    /\ ~Exists(fs, FileName(mint_address, image_url))
    /\ i' = i + 1
    /\ url' = image_url
    /\ filepath' = FileName(mint_address, image_url)
    /\ attempt' = 0
    /\ ret' = FALSE
    /\ callGets' = 0
    /\ failedGets' = 0
    /\ waits' = 0
    /\ file_ext' = get_file_extension_from_url(image_url)
    /\ fetched' = fetched + 1
    /\ pc' = "get"
    /\ UNCHANGED <<dir, manifestFile, fs, run, error, collection_data, items,
                   total_count, counters, gets, sleeps, fs0, prev, writes,
                   outcomes>>

\* download_image has returned and main counts its result
CountFetch ==
    /\ pc = "fetch_ret"
    /\ LET c == Counted(ret, successful_downloads, failed_downloads)
       IN  /\ successful_downloads' = c[1]
           /\ failed_downloads' = c[2]
    /\ outcomes' = Append(outcomes, IF ret THEN "ok" ELSE "failed")
    /\ pc' = "throttle"
    /\ UNCHANGED <<dir, manifestFile, fs, run, error, collection_data, items,
                   total_count, i, skipped_downloads, callVars, gets, sleeps,
                   fetched, fs0, prev, file_ext, writes>>

\* variant: the sleep is missing
Throttle_NoSleep ==
    /\ pc = "throttle"
    /\ pc' = "loop"
    /\ UNCHANGED <<dir, manifestFile, fs, run, error, mainVars, callVars,
                   gets, sleeps, fetched, fs0, prev, histVars>>

\* time.sleep(0.5)
Throttle ==
    /\ pc = "throttle"
    /\ sleeps' = sleeps + 1
    /\ pc' = "loop"
    /\ UNCHANGED <<dir, manifestFile, fs, run, error, mainVars, callVars,
                   gets, fetched, fs0, prev, histVars>>

\* the loop is over: the summary is printed and main returns
Summary ==
    /\ pc = "loop"
    /\ i = Len(items)
    /\ pc' = "done"
    /\ UNCHANGED <<dir, manifestFile, fs, run, error, mainVars, callVars,
                   gets, sleeps, fetched, fs0, prev, histVars>>

(***************************************************************************)
(* download_image                                                           *)
(***************************************************************************)
\* requests.get or raise_for_status raises a RequestException; the handler
\* goes on to the wait when attempts remain and returns False otherwise
GetFails ==
    /\ pc = "get"
    /\ gets' = gets + 1
    /\ callGets' = callGets + 1
    /\ failedGets' = failedGets + 1
    /\ IF AttemptsRemain(attempt)
       THEN pc' = "retry_wait" /\ ret' = ret
       ELSE pc' = "fetch_ret" /\ ret' = FALSE
    /\ UNCHANGED <<dir, manifestFile, fs, run, error, mainVars, url,
                   filepath, attempt, waits, sleeps, fetched, fs0, prev,
                   histVars>>

\* time.sleep(2), then the next iteration of range(max_retries); the loop
\* running out is the return False after it
RetryWait ==
    /\ pc = "retry_wait"
    /\ waits' = waits + 1
    /\ attempt' = attempt + 1
    /\ IF attempt + 1 < max_retries
       THEN pc' = "get" /\ ret' = ret
       ELSE pc' = "fetch_ret" /\ ret' = FALSE
    /\ UNCHANGED <<dir, manifestFile, fs, run, error, mainVars, url,
                   filepath, callGets, failedGets, gets, sleeps, fetched,
                   fs0, prev, histVars>>

\* the response is a success and its body is written to filepath
GetSucceeds ==
    /\ pc = "get"
    /\ gets' = gets + 1
    /\ callGets' = callGets + 1
    /\ fs' = WriteBody(fs, filepath)
    /\ writes' = [writes EXCEPT ![filepath] = @ + 1]
    /\ ret' = TRUE
    /\ pc' = "fetch_ret"
    /\ UNCHANGED <<dir, manifestFile, run, error, mainVars, url, filepath,
                   attempt, failedGets, waits, sleeps, fetched, fs0, prev,
                   file_ext, outcomes>>

\* the response is a success but open(filepath, 'wb') or f.write raises
\* OSError, which no handler catches: open failing leaves the path as it
\* was, write failing leaves a truncated file
WriteFails ==
    /\ pc = "get"
    /\ gets' = gets + 1
    /\ callGets' = callGets + 1
    /\ \/ fs' = fs /\ writes' = writes
       \/ /\ fs' = [fs EXCEPT ![filepath] = "partial"]
          /\ writes' = [writes EXCEPT ![filepath] = @ + 1]
    /\ pc' = "crashed"
    /\ error' = "OSError(write)"
    /\ UNCHANGED <<dir, manifestFile, run, mainVars, url, filepath, attempt,
                   ret, failedGets, waits, sleeps, fetched, fs0, prev,
                   file_ext, outcomes>>

(***************************************************************************)
(* The next run on the same manifest and download directory                 *)
(***************************************************************************)
Ended == pc \in {"done", "aborted", "crashed"}

NextRun ==
    /\ Ended
    /\ run < MaxRuns
    /\ run' = run + 1
    /\ prev' = [pc |-> pc, failed |-> failed_downloads, outcomes |-> outcomes]
    /\ file_ext' = << >>
    /\ writes' = NoWrites
    /\ outcomes' = << >>
    /\ fs0' = fs
    /\ pc' = "mkdir"
    /\ error' = "none"
    /\ collection_data' = None
    /\ items' = << >>
    /\ total_count' = 0
    /\ i' = 0
    /\ successful_downloads' = 0
    /\ failed_downloads' = 0
    /\ skipped_downloads' = 0
    /\ url' = << >>
    /\ filepath' = << >>
    /\ attempt' = 0
    /\ ret' = FALSE
    /\ callGets' = 0
    /\ failedGets' = 0
    /\ waits' = 0
    /\ gets' = 0
    /\ sleeps' = 0
    /\ fetched' = 0
    /\ UNCHANGED <<dir, manifestFile, fs>>

Driver ==
    \/ MakeDir \/ Load \/ Abort \/ ExtractFails \/ Extract
    \/ SkipEntry \/ AlreadyExists \/ CallFetcher \/ CountFetch \/ Throttle
    \/ Summary

Next ==
    \/ Driver
    \/ GetFails \/ RetryWait \/ GetSucceeds \/ WriteFails
    \/ NextRun

Spec == Init /\ [][Next]_vars

(***************************************************************************)
(* download_image called on its own, with any destination                   *)
(***************************************************************************)
InitFetcher ==
    /\ manifestFile = Value("missing")
    /\ dir = "present"
    /\ fs \in [Paths -> {"none", "old"}]
    /\ run = 1
    /\ pc = "get"
    /\ error = "none"
    /\ FreshMain
    /\ url \in Urls
    /\ filepath \in Paths
    /\ attempt = 0
    /\ ret = FALSE
    /\ callGets = 0
    /\ failedGets = 0
    /\ waits = 0
    /\ gets = 0
    /\ sleeps = 0
    /\ fetched = 0
    /\ fs0 = fs
    /\ prev = NoRun
    /\ file_ext = << >>
    /\ writes = NoWrites
    /\ outcomes = << >>

NextFetcher == GetFails \/ RetryWait \/ GetSucceeds \/ WriteFails

SpecFetcher == InitFetcher /\ [][NextFetcher]_vars

(***************************************************************************)
(* get_file_extension_from_url called on its own                            *)
(***************************************************************************)
Strings(chars, n) == UNION {[1..k -> chars] : k \in 0..n}

\* URLs: with or without scheme and host, a path, and then nothing, a query
\* without ext, or ?ext=value followed by nothing, by another parameter,
\* by a fragment or by a second ?ext=
UrlHeads == {<< >>, <<Origin>>}
UrlPathStrings == Strings({"/", ".", ";", "a"}, MaxPathLen)
ExtValues == Strings({"g", "i"}, MaxExtLen)
ExtTails == {<< >>, <<"&", "k">>, <<"#", "f">>, ExtParam \o <<"x">>}
UrlQueries ==
    {<< >>, <<"?", "k">>} \cup {ExtParam \o v \o t : v \in ExtValues, t \in ExtTails}
ExtInputs == {h \o p \o q : h \in UrlHeads, p \in UrlPathStrings, q \in UrlQueries}

InitExt ==
    /\ manifestFile = Value("missing")
    /\ dir = "present"
    /\ fs = [p \in Paths |-> "none"]
    /\ run = 1
    /\ pc = "ext_call"
    /\ error = "none"
    /\ FreshMain
    /\ url \in ExtInputs
    /\ filepath = << >>
    /\ attempt = 0
    /\ ret = FALSE
    /\ callGets = 0
    /\ failedGets = 0
    /\ waits = 0
    /\ gets = 0
    /\ sleeps = 0
    /\ fetched = 0
    /\ fs0 = fs
    /\ prev = NoRun
    /\ file_ext = << >>
    /\ writes = NoWrites
    /\ outcomes = << >>

\* file_ext = get_file_extension_from_url(url)
InferExtension ==
    /\ pc = "ext_call"
    /\ file_ext' = get_file_extension_from_url(url)
    /\ pc' = "ext_ret"
    /\ UNCHANGED <<dir, manifestFile, fs, run, error, mainVars, callVars,
                   gets, sleeps, fetched, fs0, prev, writes, outcomes>>

NextExt == InferExtension

SpecExt == InitExt /\ [][NextExt]_vars

(***************************************************************************)
(* Properties                                                               *)
(***************************************************************************)
Counted3 == successful_downloads + failed_downloads + skipped_downloads
InCall == pc \in {"get", "retry_wait", "fetch_ret"}
ItemsPresent(doc) == "result" \in doc.top /\ "items" \in doc.res

\* C1: the counters add up to the number of entries whose processing is
\* over, at every point of the loop and when the summary is printed, where
\* that number is the length of the manifest's item list
C1_Reconciled ==
    /\ pc \in {"loop", "throttle"} => Counted3 = i
    /\ InCall => Counted3 = i - 1
    /\ pc = "done" =>
          /\ Counted3 = total_count
          /\ total_count = Len(manifestFile.items)

\* C1: a step of a run that changes a counter adds one to exactly one of
\* the three
C1_OneCounter ==
    (run' = run /\ counters' # counters) =>
        \/ /\ successful_downloads' = successful_downloads + 1
           /\ failed_downloads' = failed_downloads
           /\ skipped_downloads' = skipped_downloads
        \/ /\ successful_downloads' = successful_downloads
           /\ failed_downloads' = failed_downloads + 1
           /\ skipped_downloads' = skipped_downloads
        \/ /\ successful_downloads' = successful_downloads
           /\ failed_downloads' = failed_downloads
           /\ skipped_downloads' = skipped_downloads + 1

\* C1 (counts reconcile): every processed entry adds one to exactly one of
\* successful, failed, skipped, and at the summary their sum is the number
\* of entries of the manifest
C1_CountsReconcile == []C1_Reconciled /\ [][C1_OneCounter]_vars

C1_Witness ==
    /\ pc = "done"
    /\ total_count = 2
    /\ successful_downloads = 1
    /\ failed_downloads = 1

\* C2: a call of download_image never makes more than max_retries GETs, and
\* one whose GETs all failed has made exactly max_retries of them when it
\* returns, returns False, and leaves no file at the destination
C2_AllFailed ==
    /\ callGets <= max_retries
    /\ (pc = "fetch_ret" /\ failedGets = callGets) =>
          /\ callGets = max_retries
          /\ ret = FALSE
          /\ fs[filepath] = "none"

\* C2: main counts that call as failed, and nothing else changes
C2_CountedFailed ==
    (pc = "fetch_ret" /\ failedGets = callGets) =>
        /\ failed_downloads' = failed_downloads + 1
        /\ successful_downloads' = successful_downloads
        /\ skipped_downloads' = skipped_downloads
        /\ fs' = fs
        /\ gets' = gets

\* C2 (retry bound): a URL that fails on every request gets exactly
\* max_retries GETs, then Failure, then failed + 1, and no file
C2_RetryBound == []C2_AllFailed /\ [][C2_CountedFailed]_vars

C2_Witness ==
    /\ pc = "throttle"
    /\ failedGets = max_retries
    /\ callGets = max_retries
    /\ failed_downloads = 1
    /\ fs[filepath] = "none"

\* C3 as stated (idempotence whatever the first run's outcomes): in a run
\* that follows a run that reached its summary, there is no GET and the
\* files stay those the earlier run left
C3_Original ==
    prev.pc = "done" => (gets = 0 /\ fs = fs0)

\* C3 (idempotence after a clean run): in a run that follows a run that
\* reached its summary with no entry counted failed, there is no GET and
\* the files stay those the earlier run left
C3_IdempotentAfterCleanRun ==
    (prev.pc = "done" /\ prev.failed = 0) => (gets = 0 /\ fs = fs0)

C3_Witness ==
    /\ prev.pc = "done"
    /\ prev.failed = 0
    /\ pc = "done"
    /\ total_count = 2
    /\ successful_downloads = 2
    /\ \A p \in Paths : fs[p] = "body"

\* C4 (skip correctness): for an entry whose id or image URL is empty or
\* absent, the step of main adds one to skipped, leaves successful and
\* failed alone, makes no GET and no call of download_image, changes no
\* file, and goes on to the next entry
C4_SkipCorrect ==
    [][(/\ pc = "loop"
        /\ i < Len(items)
        /\ \/ NextItem.id \in {Absent, << >>}
           \/ NextItem.image \in {Absent, << >>})
       => /\ skipped_downloads' = skipped_downloads + 1
          /\ successful_downloads' = successful_downloads
          /\ failed_downloads' = failed_downloads
          /\ gets' = gets
          /\ fetched' = fetched
          /\ fs' = fs
          /\ i' = i + 1
          /\ pc' = "loop"]_vars

C4_Witness ==
    /\ skipped_downloads = 1
    /\ i = 2
    /\ pc = "get"
    /\ fetched = 1

\* C5 (a network failure is never fatal): a run in which an entry was
\* counted failed is not ended by an exception
C5_NetworkFailureNeverFatal ==
    failed_downloads > 0 => pc # "crashed"

\* C6 (a filesystem failure does not abort the run): no run is ended by
\* the exception of a failed write
C6_WriteFailureNeverFatal ==
    pc = "crashed" => error # "OSError(write)"

\* C7 (manifest load failure aborts): with a manifest file that is
\* missing, unreadable or malformed, the run gets no further than the
\* return after the load: no entry is processed, no GET is made, no file
\* changes and no counter moves
C7_LoadFailureAborts ==
    manifestFile \in BadFiles =>
        /\ pc \in {"mkdir", "load", "check", "aborted", "crashed"}
        /\ pc = "crashed" => error = "OSError(mkdir)"
        /\ i = 0
        /\ gets = 0
        /\ fetched = 0
        /\ fs = fs0
        /\ Counted3 = 0

C7_Witness ==
    /\ manifestFile \in BadFiles
    /\ pc = "aborted"
    /\ collection_data = None

\* C8 (absent result.items is not an error): a manifest that parses to an
\* object without result.items does not end the run at the return after
\* the load, the way a load failure does
C8_AbsentItemsReachSummary ==
    (manifestFile \in ObjectDocs /\ ~ItemsPresent(manifestFile)) =>
        pc # "aborted"

\* C9 as stated (throttle after every entry): whenever main is at the head
\* of the loop, it has slept once for every entry it has processed
C9_Original ==
    pc = "loop" => sleeps = i

\* C9 (throttle after every fetched entry): main has slept once for every
\* call of download_image that it has counted, and not at all for the
\* entries it skipped or found already present
C9_ThrottleAfterFetch ==
    /\ pc \in {"loop", "done"} => sleeps = fetched
    /\ (InCall \/ pc = "throttle") => sleeps = fetched - 1

C9_Witness ==
    /\ pc = "loop"
    /\ i = 2
    /\ fetched = 1
    /\ sleeps = 1

\* C10 as stated (pre-check in the Fetcher): a call of download_image with
\* a destination that holds a file makes no GET, leaves the file as it is
\* and returns True
C10_Original ==
    fs0[filepath] # "none" =>
        /\ callGets = 0
        /\ fs = fs0
        /\ pc = "fetch_ret" => ret = TRUE

\* C10 (no pre-check in the Fetcher): a call of download_image with a
\* destination that holds a file has made at least one GET when it
\* returns; it returns True only with the file replaced by the body of the
\* response, and False only after max_retries failed GETs, the file as it
\* was
C10_FetcherAlwaysFetches ==
    (fs0[filepath] # "none" /\ pc = "fetch_ret") =>
        /\ callGets >= 1
        /\ ret = TRUE => fs[filepath] = "body"
        /\ ret = FALSE => (fs = fs0 /\ failedGets = max_retries)

C10_Witness ==
    /\ fs0[filepath] = "old"
    /\ pc = "fetch_ret"
    /\ ret = TRUE
    /\ fs[filepath] = "body"

\* destination of the entry the loop takes next, from the entry itself
NextDest == FileName(NextItem.id, NextItem.image)
NextUsable ==
    /\ NextItem.id \notin {Absent, << >>}
    /\ NextItem.image \notin {Absent, << >>}

\* C11 (existing destination): for an entry with an id and a URL whose
\* destination holds a file, whatever its content, the step of main adds
\* one to successful, leaves failed and skipped alone, makes no GET and no
\* call of download_image, changes no file, and goes on to the next entry
C11_ExistingCountsAsSuccess ==
    [][(/\ pc = "loop"
        /\ i < Len(items)
        /\ NextUsable
        /\ fs[NextDest] # "none")
       => /\ successful_downloads' = successful_downloads + 1
          /\ failed_downloads' = failed_downloads
          /\ skipped_downloads' = skipped_downloads
          /\ gets' = gets
          /\ fetched' = fetched
          /\ writes' = writes
          /\ fs' = fs
          /\ i' = i + 1
          /\ pc' = "loop"]_vars

\* a file left truncated by the failed write of the run before is taken as
\* already downloaded
C11_Witness ==
    /\ pc = "loop"
    /\ i = 1
    /\ outcomes = <<"exists">>
    /\ successful_downloads = 1
    /\ gets = 0
    /\ fs[Mint1 \o file_ext] = "partial"

\* C12 (extension inference): the inferred extension is a dot followed by
\* at least one character
C12_DotAndCharacter ==
    pc = "ext_ret" => (Len(file_ext) >= 2 /\ file_ext[1] = ".")

\* C13: the GETs, failed GETs and waits of a call at each of its points:
\* before attempt k + 1 there were k failed GETs and k waits; a call that
\* returns True made one GET more than failed, waited once per failed GET
\* and wrote the destination once; a call that returns False made
\* max_retries GETs, all failed, waited max_retries - 1 times, wrote nothing
C13_Attempts ==
    /\ pc = "get" =>
          /\ attempt < max_retries
          /\ callGets = attempt
          /\ failedGets = attempt
          /\ waits = attempt
    /\ pc = "retry_wait" =>
          /\ callGets = attempt + 1
          /\ failedGets = attempt + 1
          /\ waits = attempt
    /\ (pc = "fetch_ret" /\ ret = TRUE) =>
          /\ callGets <= max_retries
          /\ callGets = failedGets + 1
          /\ waits = failedGets
          /\ writes[filepath] = 1
          /\ fs[filepath] = "body"
    /\ (pc = "fetch_ret" /\ ret = FALSE) =>
          /\ callGets = max_retries
          /\ failedGets = max_retries
          /\ waits = max_retries - 1
          /\ writes[filepath] = 0

\* C13: once the call has returned, it makes no GET, no wait and no write
C13_NothingAfterReturn ==
    pc = "fetch_ret" =>
        /\ gets' = gets
        /\ callGets' = callGets
        /\ waits' = waits
        /\ writes' = writes
        /\ fs' = fs

\* C13 (retry schedule): a first success at attempt k means k GETs, k - 1
\* waits, one write, True and nothing more; max_retries failures mean
\* max_retries - 1 waits
C13_RetrySchedule == []C13_Attempts /\ [][C13_NothingAfterReturn]_vars

C13_Witness ==
    /\ pc = "fetch_ret"
    /\ ret = TRUE
    /\ callGets = max_retries
    /\ waits = max_retries - 1
    /\ writes[filepath] = 1

\* C14 (how a run stops): a run that has begun the entry list stops only
\* by exhausting it and printing the summary
C14_StopsBySummary ==
    (Ended /\ i > 0) => pc = "done"

\* steps that a run can still take at most: those of the current entry,
\* then those of the entries not yet begun
EntrySteps == 2 * max_retries + 3
StepsLeft ==
    CASE pc = "mkdir" -> 4 + EntrySteps * MaxItems
      [] pc = "load" -> 3 + EntrySteps * MaxItems
      [] pc = "check" -> 2 + EntrySteps * MaxItems
      [] pc = "loop" -> 1 + EntrySteps * (Len(items) - i)
      [] pc = "get" -> 3 + 2 * (max_retries - attempt)
                         + EntrySteps * (Len(items) - i)
      [] pc = "retry_wait" -> 2 + 2 * (max_retries - attempt)
                                + EntrySteps * (Len(items) - i)
      [] pc = "fetch_ret" -> 3 + EntrySteps * (Len(items) - i)
      [] pc = "throttle" -> 2 + EntrySteps * (Len(items) - i)
      [] OTHER -> 0

\* every run stops, in one way or another: each of its steps lowers a
\* bound that is never negative
RunStops == [][run' = run => (StepsLeft' < StepsLeft /\ StepsLeft' >= 0)]_vars

\* C15: in a run no path is opened for writing twice, and none that held
\* a file when the run started
C15_WrittenOnce ==
    \A p \in Paths :
        /\ writes[p] <= 1
        /\ writes[p] = 1 => fs0[p] = "none"

\* C15: download_image is entered only for a destination that holds no
\* file, and a write goes to a path that holds none
C15_FetchedOnlyIfMissing ==
    /\ (pc = "loop" /\ pc' = "get") => fs[filepath'] = "none"
    /\ (run' = run /\ writes' # writes) => fs[filepath] = "none"

\* C15 (write once per path): within a run each destination is written at
\* most once and an existing file never, duplicates of an identifier
\* included
C15_WriteOncePerPath == []C15_WrittenOnce /\ [][C15_FetchedOnlyIfMissing]_vars

C15_Witness ==
    /\ pc = "done"
    /\ Len(items) = 2
    /\ items[1] = items[2]
    /\ outcomes = <<"ok", "exists">>
    /\ writes[filepath] = 1

\* the call of download_image for the entry the loop takes next, with all
\* its attempts ahead
FreshCall ==
    /\ pc' = "get"
    /\ url' = NextItem.image
    /\ filepath' = NextDest
    /\ attempt' = 0
    /\ callGets' = 0
    /\ failedGets' = 0
    /\ waits' = 0

\* C16 as stated (no memory of failures): an entry that was counted failed
\* in the run before, a run that reached its summary, is given to
\* download_image again, with all its attempts
C16_Original ==
    [][(/\ pc = "loop"
        /\ i < Len(items)
        /\ prev.pc = "done"
        /\ prev.outcomes[i + 1] = "failed")
       => FreshCall]_vars

\* C16 (no memory of failures): an entry that was counted failed in the
\* run before and whose destination holds no file when the loop reaches it
\* is given to download_image again, with all its attempts
C16_RefetchedWhenStillMissing ==
    [][(/\ pc = "loop"
        /\ i < Len(items)
        /\ i < Len(prev.outcomes)
        /\ prev.outcomes[i + 1] = "failed"
        /\ fs[NextDest] = "none")
       => FreshCall]_vars

C16_Witness ==
    /\ run > 1
    /\ pc = "fetch_ret"
    /\ i <= Len(prev.outcomes)
    /\ prev.outcomes[i] = "failed"
    /\ callGets = max_retries
    /\ ret = FALSE

\* entries of the run counted successful, files the run created
Successes == {j \in 1..Len(outcomes) : outcomes[j] \in {"ok", "exists"}}
FoundExisting == {j \in 1..Len(outcomes) : outcomes[j] = "exists"}
Created == {p \in Paths : fs0[p] = "none" /\ fs[p] # "none"}

\* C17 (successes and files): at the summary every entry counted successful
\* has a file at its destination, successful counts exactly those entries,
\* it is at least the number of files the run created, and equal to it
\* exactly when no entry was found already present
C17_SuccessesHaveFiles ==
    pc = "done" =>
        /\ \A j \in Successes :
              fs[FileName(items[j].id, items[j].image)] # "none"
        /\ successful_downloads = Cardinality(Successes)
        /\ successful_downloads >= Cardinality(Created)
        /\ successful_downloads = Cardinality(Created) <=> FoundExisting = {}

C17_Witness ==
    /\ pc = "done"
    /\ outcomes = <<"exists", "ok">>
    /\ successful_downloads = 2
    /\ Cardinality(Created) = 1

=============================================================================
